---- MODULE Spec2Model ----
(***************************************************************************)
(* Model of js/app.js: the AICI demo form (50% advance preview, history    *)
(* table, print).  Amount texts carry at most three decimals and a number  *)
(* is named in thousandths of a euro; the arithmetic of compute() is done  *)
(* on IEEE-754 doubles.  Text fields are sequences of one-character        *)
(* strings; dates are strings.                                             *)
(***************************************************************************)
EXTENDS Integers, Sequences, FiniteSets, TLC

\* client .. montant: the value of the four form fields; calcZone: the class
\* and the content of the preview area; tbody: the rows of the history table,
\* top first; now: the clock reading of the last submit event; tz: the user's
\* offset from UTC; lastOp, alertMsg, thrown, ret: the last event, the alert
\* it showed, whether its handler ended in an uncaught TypeError, and what
\* its call of compute() returned
VARIABLES client, prestation, datePrest, montant, calcZone, tbody,
          now, tz, lastOp, alertMsg, thrown, ret

vars == <<client, prestation, datePrest, montant, calcZone, tbody,
          now, tz, lastOp, alertMsg, thrown, ret>>

-----------------------------------------------------------------------------
(* Bounds *)

\* accepted submissions per session
MaxRows == 2
\* largest amount of the calculator specification, in thousandths of a euro
MaxAmount == 1300

-----------------------------------------------------------------------------
(* Text helpers *)

Str(n) == ToString(n)

Pad2(n) == IF n < 10 THEN "0" \o Str(n) ELSE Str(n)

Pad3(n) == IF n < 10 THEN "00" \o Str(n) ELSE IF n < 100 THEN "0" \o Str(n) ELSE Str(n)

Digits == <<"0", "1", "2", "3", "4", "5", "6", "7", "8", "9">>

IsDigit(ch) == \E i \in 1..10 : Digits[i] = ch

DigitVal(ch) == (CHOOSE i \in 1..10 : Digits[i] = ch) - 1

IsSpace(ch) == ch = " "

RECURSIVE TrimStart(_)
TrimStart(s) == IF s # <<>> /\ IsSpace(Head(s)) THEN TrimStart(Tail(s)) ELSE s

RECURSIVE TrimEnd(_)
TrimEnd(s) == IF s # <<>> /\ IsSpace(s[Len(s)]) THEN TrimEnd(SubSeq(s, 1, Len(s) - 1)) ELSE s

\* String.prototype.trim
trim(s) == TrimEnd(TrimStart(s))

RECURSIVE TakeDigits(_)
TakeDigits(s) == IF s # <<>> /\ IsDigit(Head(s)) THEN <<Head(s)>> \o TakeDigits(Tail(s)) ELSE <<>>

RECURSIVE IntVal(_)
IntVal(ds) == IF ds = <<>> THEN 0 ELSE IntVal(SubSeq(ds, 1, Len(ds) - 1)) * 10 + DigitVal(ds[Len(ds)])

\* the fraction digits as thousandths (the amount texts of the model carry at
\* most three decimals)
FracVal(ds) ==
    (IF Len(ds) >= 1 THEN DigitVal(ds[1]) * 100 ELSE 0)
  + (IF Len(ds) >= 2 THEN DigitVal(ds[2]) * 10 ELSE 0)
  + (IF Len(ds) >= 3 THEN DigitVal(ds[3]) ELSE 0)

NaN == [nan |-> TRUE, v |-> 0]

Num(n) == [nan |-> FALSE, v |-> n]

\* parseFloat: leading white space, an optional sign, the longest decimal
\* prefix; NaN when no digit is found
parseFloat(s) ==
    LET t == TrimStart(s)
        signed == t # <<>> /\ Head(t) \in {"-", "+"}
        neg == t # <<>> /\ Head(t) = "-"
        u == IF signed THEN Tail(t) ELSE t
        ip == TakeDigits(u)
        rest == SubSeq(u, Len(ip) + 1, Len(u))
        fp == IF rest # <<>> /\ Head(rest) = "." THEN TakeDigits(Tail(rest)) ELSE <<>>
        mag == IntVal(ip) * 1000 + FracVal(fp)
    IN  IF ip = <<>> /\ fp = <<>> THEN NaN
        ELSE Num(IF neg THEN 0 - mag ELSE mag)

\* value || '0'
OrZero(s) == IF s = <<>> THEN <<"0">> ELSE s

RECURSIVE Group(_)
\* fr-FR grouping of the integer part
Group(n) == IF n < 1000 THEN Str(n) ELSE Group(n \div 1000) \o " " \o Pad3(n % 1000)

\* format: EURO.format(Number(n || 0)), two decimals, ties away from zero (the
\* no-break spaces of the fr-FR pattern are written as plain spaces)
format(n) ==
    LET a == IF n < 0 THEN 0 - n ELSE n
        cents == (a + 5) \div 10
    IN  (IF n < 0 THEN "-" ELSE "") \o Group(cents \div 100) \o "," \o Pad2(cents % 100) \o " €"

\* today: new Date().toISOString().slice(0,10), the UTC calendar date of the
\* instant t (hours after 2025-10-12T23:00Z)
today(t) == "2025-10-" \o Pad2(12 + (23 + t) \div 24)

-----------------------------------------------------------------------------
(* The binary64 arithmetic of lines 14-17.  A natural number of any size is *)
(* a little-endian sequence of limbs below Base with no leading zero limb;  *)
(* a double is [neg, M, e], the value (-1)^neg * M * 2^e, M <= 2^53.        *)
(* Elsewhere a number is named by its shortest decimal text, in thousandths *)
(* of a euro: n stands for the double nearest to n / 1000.                  *)

Base == 2 ^ 20

Pow2(k) == 2 ^ k

RECURSIVE BNorm(_)
BNorm(a) == IF a # <<>> /\ a[Len(a)] = 0 THEN BNorm(SubSeq(a, 1, Len(a) - 1)) ELSE a

RECURSIVE BFromInt(_)
BFromInt(n) == IF n = 0 THEN <<>> ELSE <<n % Base>> \o BFromInt(n \div Base)

RECURSIVE BToInt(_)
BToInt(a) == IF a = <<>> THEN 0 ELSE Head(a) + Base * BToInt(Tail(a))

Limb(a, i) == IF i >= 1 /\ i <= Len(a) THEN a[i] ELSE 0

RECURSIVE BAddC(_, _, _, _)
BAddC(a, b, i, c) ==
    IF i > Len(a) /\ i > Len(b)
    THEN (IF c = 0 THEN <<>> ELSE <<c>>)
    ELSE LET t == Limb(a, i) + Limb(b, i) + c
         IN  <<t % Base>> \o BAddC(a, b, i + 1, t \div Base)

BAdd(a, b) == BAddC(a, b, 1, 0)

RECURSIVE BSubC(_, _, _, _)
\* a - b for a >= b
BSubC(a, b, i, c) ==
    IF i > Len(a) THEN <<>>
    ELSE LET t == Limb(a, i) - Limb(b, i) - c
         IN  <<t % Base>> \o BSubC(a, b, i + 1, IF t < 0 THEN 1 ELSE 0)

BSub(a, b) == BNorm(BSubC(a, b, 1, 0))

RECURSIVE BCmpAt(_, _, _)
BCmpAt(a, b, i) ==
    IF i = 0 THEN 0
    ELSE IF a[i] > b[i] THEN 1
    ELSE IF a[i] < b[i] THEN 0 - 1
    ELSE BCmpAt(a, b, i - 1)

\* -1, 0, 1 as a < b, a = b, a > b
BCmp(a, b) ==
    IF Len(a) > Len(b) THEN 1
    ELSE IF Len(a) < Len(b) THEN 0 - 1
    ELSE BCmpAt(a, b, Len(a))

RECURSIVE BMulC(_, _, _, _)
BMulC(a, k, i, c) ==
    IF i > Len(a) THEN BFromInt(c)
    ELSE LET t == a[i] * k + c
         IN  <<t % Base>> \o BMulC(a, k, i + 1, t \div Base)

\* a * k for 0 < k <= 1024
BMulSmall(a, k) == BMulC(a, k, 1, 0)

RECURSIVE BDivC(_, _, _, _)
\* long division from the top limb: <<quotient limbs, remainder>>
BDivC(a, k, i, r) ==
    IF i = 0 THEN [q |-> <<>>, r |-> r]
    ELSE LET t == r * Base + a[i]
             rest == BDivC(a, k, i - 1, t % k)
         IN  [q |-> rest.q \o <<t \div k>>, r |-> rest.r]

\* a divided by k, 0 < k <= 1024: quotient and remainder
BDivSmall(a, k) ==
    LET d == BDivC(a, k, Len(a), 0) IN [q |-> BNorm(d.q), r |-> d.r]

\* a * 2^s
BShl(a, s) ==
    LET w == s \div 20
        r == s % 20
        n == Len(a)
        hi == Pow2(20 - r)
    IN  IF a = <<>> THEN <<>>
        ELSE BNorm([i \in 1..(n + w + 1) |->
                IF i <= w THEN 0
                ELSE (Limb(a, i - w) % hi) * Pow2(r) + (Limb(a, i - w - 1) \div hi)])

\* floor(a / 2^s)
BShr(a, s) ==
    LET w == s \div 20
        r == s % 20
        n == Len(a)
    IN  IF n <= w THEN <<>>
        ELSE BNorm([i \in 1..(n - w) |->
                (Limb(a, i + w) \div Pow2(r)) + (Limb(a, i + w + 1) % Pow2(r)) * Pow2(20 - r)])

RECURSIVE IntBits(_)
IntBits(n) == IF n = 0 THEN 0 ELSE 1 + IntBits(n \div 2)

BBitLen(a) == IF a = <<>> THEN 0 ELSE 20 * (Len(a) - 1) + IntBits(a[Len(a)])

BOdd(a) == a # <<>> /\ a[1] % 2 = 1

Double(neg, M, e) == [neg |-> neg, M |-> M, e |-> e]

\* the double nearest to M * 2^e (+ a little, when sticky), ties to even
Round53(neg, M, e, sticky) ==
    LET L == BBitLen(M)
        s == L - 53
        q == BShr(M, s)
        rem == BSub(M, BShl(q, s))
        c == BCmp(rem, BShl(<<1>>, s - 1))
        up == c > 0 \/ (c = 0 /\ (sticky \/ BOdd(q)))
    IN  IF L <= 53 THEN Double(neg, M, e)
        ELSE Double(neg, IF up THEN BAdd(q, <<1>>) ELSE q, e + s)

\* the double nearest to p / q, for integers 0 <= p, 0 < q <= 1024
FromRatio(neg, p, q) ==
    LET d == BDivSmall(BShl(BFromInt(p), 64), q)
    IN  IF p = 0 THEN Double(neg, <<>>, 0)
        ELSE Round53(neg, d.q, 0 - 64, d.r # 0)

\* x * 0.5
FHalf(x) == Double(x.neg, x.M, x.e - 1)

\* x * k, an integer 0 < k <= 1024
FMulInt(x, k) == Round53(x.neg, BMulSmall(x.M, k), x.e, FALSE)

\* x - y for doubles x, y >= 0
FSub(x, y) ==
    LET e == IF x.e < y.e THEN x.e ELSE y.e
        a == BShl(x.M, x.e - e)
        b == BShl(y.M, y.e - e)
    IN  IF y.M = <<>> THEN x
        ELSE IF x.M = <<>> THEN Double(TRUE, y.M, y.e)
        ELSE IF BCmp(a, b) >= 0 THEN Round53(FALSE, BSub(a, b), e, FALSE)
        ELSE Round53(TRUE, BSub(b, a), e, FALSE)

\* Math.round(x): floor(x + 0.5), for |x| < 2^31
FRound(x) ==
    LET s == 0 - x.e
        half == BShl(<<1>>, s - 1)
        up == BToInt(BShr(BAdd(x.M, half), s))
        t == BSub(x.M, half)
        fl == BShr(t, s)
        exact == BCmp(BShl(fl, s), t) = 0
    IN  IF x.M = <<>> THEN 0
        ELSE IF s <= 0 THEN (IF x.neg THEN 0 - BToInt(BShl(x.M, x.e)) ELSE BToInt(BShl(x.M, x.e)))
        ELSE IF ~x.neg THEN up
        ELSE IF BCmp(x.M, half) <= 0 THEN 0
        ELSE 0 - (BToInt(fl) + (IF exact THEN 0 ELSE 1))

-----------------------------------------------------------------------------
(* Inputs of the model *)

ClientTexts == {<<>>, <<" ">>, <<" ", "A", " ">>}

PrestationTexts == {<<>>, <<"B">>}

\* the date field: empty, or any text (no format is checked)
DateTexts == {"", "12/10/2025"}

AmountTexts == {<<>>, <<"0">>, <<"-", "5">>, <<"a", "b", "c">>, <<"8", "0">>,
                <<" ", "0", ".", "2", "9", "x">>}

\* clock readings (hours after 2025-10-12T23:00Z) and the user's offsets from
\* UTC (hours)
Instants == {0, 1}

Offsets == {0 - 5, 2}

-----------------------------------------------------------------------------
(* The page *)

ALERT_FORM == "Merci de compléter le formulaire."

\* (the typographic apostrophes of the message are written as ')
ALERT_OK == "Dossier transmis (démo). Aucun envoi réel à l'URSSAF n'est effectué."

\* a <tr>: the values interpolated into the template and, for the two
\* amounts, the text that format renders into the cell
Row(d, c, p, m, aici, status) ==
    [d |-> d, c |-> c, p |-> p, m |-> m, aici |-> aici,
     mCell |-> format(m), aiciCell |-> format(aici), status |-> status]

\* x.m*0.5 of the seed loop (not rounded)
SeedAdvance(m) == (m * 5) \div 10

seed ==
    << Row("2025-10-12", <<"M", "m", "e", " ", "D", "u", "p", "o", "n", "t">>,
           <<"E", "n", "t", "r", "e", "t", "i", "e", "n", " ", "j", "a", "r", "d", "i", "n">>,
           80000, SeedAdvance(80000), "Réglé (démo)"),
       Row("2025-10-05", <<"M", ".", " ", "M", "a", "r", "t", "i", "n">>,
           <<"B", "r", "i", "c", "o", "l", "a", "g", "e", " ", "l", "é", "g", "e", "r">>,
           120000, SeedAdvance(120000), "Réglé (démo)") >>

\* variant: the seed loop prepends
AppendChildPrepends(rows, tr) == <<tr>> \o rows

\* tbody.appendChild(tr)
AppendChild(rows, tr) == Append(rows, tr)

\* tbody.prepend(tr)
Prepend(rows, tr) == <<tr>> \o rows

\* the value a field has at load and after form.reset(): the page's markup
\* gives the fields no value
DefaultValue == <<>>

DefaultDate == ""

\* the rows of #historyTable tbody in the page's markup
EmptyTable == <<>>

\* variant: zero is let through (montant < 0)
ComputeRejectsBelowZero(m) == m.nan \/ m.v < 0

\* isNaN(montant) || montant <= 0
ComputeRejects(m) == m.nan \/ m.v <= 0

\* Math.round(montant*0.5*100)/100
Advance(m) == FRound(FMulInt(FHalf(FromRatio(FALSE, m, 1000)), 100)) * 10

\* Math.round((montant - aici)*100)/100
Remainder(m, aici) ==
    FRound(FMulInt(FSub(FromRatio(FALSE, m, 1000), FromRatio(FALSE, aici \div 10, 100)), 100)) * 10

\* the amounts >= 0 that the amount texts of the model parse to
Amounts ==
    {v \in {parseFloat(OrZero(t)).v : t \in AmountTexts} \cup 0..MaxAmount : v >= 0}

\* lines 16-17 for each of them, computed once
AiciReste ==
    [m \in Amounts |->
        LET aici == Advance(m) IN [aici |-> aici, reste |-> Remainder(m, aici)]]

\* the value compute() returns for the amount text txt: <<>> is undefined
ComputeRet(txt) ==
    LET m == parseFloat(OrZero(txt))
    IN  IF ComputeRejects(m) THEN <<>>
        ELSE <<[montant |-> m.v, aici |-> AiciReste[m.v].aici, reste |-> AiciReste[m.v].reste]>>

\* calcZone after a compute() that returns r
ComputeZone(r, zone) ==
    IF r = <<>> THEN [zone EXCEPT !.hidden = TRUE]
    ELSE [hidden |-> FALSE,
          html |-> <<format(r[1].montant), format(r[1].aici), format(r[1].reste)>>]

\* variant: the preview is left as compute() set it
HideNothing(zone) == zone

\* calcZone.classList.add('hidden')
Hide(zone) == [zone EXCEPT !.hidden = TRUE]

\* variant: the amount is not tested (!c || !p)
InvalidNamesOnly(c, p, m) == c = <<>> \/ p = <<>>

\* !c || !p || !m
Invalid(c, p, m) == c = <<>> \/ p = <<>> \/ m.nan \/ m.v = 0

\* datePrest.value || today()
DateOrToday(v, t) == IF v # "" THEN v ELSE today(t)

\* the page after the script ran; whether the markup shows calcZone is open
Init ==
    /\ client = DefaultValue
    /\ prestation = DefaultValue
    /\ datePrest = DefaultDate
    /\ montant = DefaultValue
    /\ calcZone \in {[hidden |-> h, html |-> <<>>] : h \in BOOLEAN}
    /\ tbody = AppendChild(AppendChild(EmptyTable, seed[1]), seed[2])
    /\ now = 0
    /\ tz \in Offsets
    /\ lastOp = "load"
    /\ alertMsg = ""
    /\ thrown = FALSE
    /\ ret = <<>>

\* the user changes the value of one field of the form
Edit ==
    /\ \/ \E t \in ClientTexts \ {client} : client' = t /\ UNCHANGED <<prestation, datePrest, montant>>
       \/ \E t \in PrestationTexts \ {prestation} : prestation' = t /\ UNCHANGED <<client, datePrest, montant>>
       \/ \E t \in DateTexts \ {datePrest} : datePrest' = t /\ UNCHANGED <<client, prestation, montant>>
       \/ \E t \in AmountTexts \ {montant} : montant' = t /\ UNCHANGED <<client, prestation, datePrest>>
    /\ lastOp' = "input"
    /\ alertMsg' = ""
    /\ thrown' = FALSE
    /\ ret' = <<>>
    /\ UNCHANGED <<calcZone, tbody, now, tz>>

\* click on calcBtn
compute ==
    /\ LET r == ComputeRet(montant)
       IN  calcZone' = ComputeZone(r, calcZone) /\ ret' = r
    /\ lastOp' = "compute"
    /\ alertMsg' = ""
    /\ thrown' = FALSE
    /\ UNCHANGED <<client, prestation, datePrest, montant, tbody, now, tz>>

\* submit of aiciForm, the clock reading t; the session is cut after MaxRows
\* accepted rows
Submit ==
    \E t \in {i \in Instants : i >= now} :
        LET c == trim(client)
            p == trim(prestation)
            d == DateOrToday(datePrest, t)
            m == parseFloat(OrZero(montant))
            calc == ComputeRet(montant)
        IN  /\ now' = t
            /\ lastOp' = "submit"
            /\ UNCHANGED tz
            /\ IF Invalid(c, p, m)
               THEN /\ alertMsg' = ALERT_FORM
                    /\ thrown' = FALSE
                    /\ ret' = <<>>
                    /\ UNCHANGED <<client, prestation, datePrest, montant, calcZone, tbody>>
               ELSE IF calc = <<>>
               THEN \* calc.aici of undefined: TypeError, the handler ends here
                    /\ thrown' = TRUE
                    /\ alertMsg' = ""
                    /\ ret' = <<>>
                    /\ calcZone' = ComputeZone(calc, calcZone)
                    /\ UNCHANGED <<client, prestation, datePrest, montant, tbody>>
               ELSE /\ Len(tbody) < Len(seed) + MaxRows
                    /\ tbody' = Prepend(tbody, Row(d, c, p, m.v, calc[1].aici, "Transmis (démo)"))
                    /\ client' = DefaultValue
                    /\ prestation' = DefaultValue
                    /\ datePrest' = DefaultDate
                    /\ montant' = DefaultValue
                    /\ calcZone' = Hide(ComputeZone(calc, calcZone))
                    /\ ret' = calc
                    /\ thrown' = FALSE
                    /\ alertMsg' = ALERT_OK

\* variant: the print click also resets the form
PrintClickResets ==
    /\ lastOp' = "print"
    /\ alertMsg' = ""
    /\ thrown' = FALSE
    /\ ret' = <<>>
    /\ client' = DefaultValue
    /\ prestation' = DefaultValue
    /\ datePrest' = DefaultDate
    /\ montant' = DefaultValue
    /\ UNCHANGED <<calcZone, tbody, now, tz>>

\* click on printBtn: window.print()
PrintClick ==
    /\ lastOp' = "print"
    /\ alertMsg' = ""
    /\ thrown' = FALSE
    /\ ret' = <<>>
    /\ UNCHANGED <<client, prestation, datePrest, montant, calcZone, tbody, now, tz>>

Next == Edit \/ compute \/ Submit \/ PrintClick

Spec == Init /\ [][Next]_vars

-----------------------------------------------------------------------------
(* The calculator alone: any amount text, then the compute click *)

RECURSIVE DigitsOf(_)
DigitsOf(n) == IF n < 10 THEN <<Digits[n + 1]>> ELSE DigitsOf(n \div 10) \o <<Digits[(n % 10) + 1]>>

\* the decimal text of n thousandths, three decimals
Render(n) ==
    DigitsOf(n \div 1000) \o <<".">> \o
    <<Digits[((n \div 100) % 10) + 1], Digits[((n \div 10) % 10) + 1], Digits[(n % 10) + 1]>>

CalcInit ==
    /\ client = DefaultValue
    /\ prestation = DefaultValue
    /\ datePrest = DefaultDate
    /\ montant \in {Render(n) : n \in 0..MaxAmount} \cup AmountTexts
    /\ calcZone \in {[hidden |-> h, html |-> <<>>] : h \in BOOLEAN}
    /\ tbody = AppendChild(AppendChild(EmptyTable, seed[1]), seed[2])
    /\ now = 0
    /\ tz \in Offsets
    /\ lastOp = "load"
    /\ alertMsg = ""
    /\ thrown = FALSE
    /\ ret = <<>>

CalcNext == compute

CalcSpec == CalcInit /\ [][CalcNext]_vars

-----------------------------------------------------------------------------
(* Vocabulary of the properties *)

\* x (thousandths) rounded half-up to two decimals
RoundHalfUp2(x) == x + 5 - ((x + 5) % 10)

\* x * 0.5 rounded half-up to two decimals
HalfRoundHalfUp2(x) == (x + 10 - ((x + 10) % 20)) \div 2

IsBlank(s) == \A i \in 1..Len(s) : s[i] = " "

\* the calendar date at the user's offset from UTC
LocalDate(t, off) == "2025-10-" \o Pad2(12 + (23 + t + off) \div 24)

Amount == parseFloat(OrZero(montant))

Submitted == lastOp = "submit"

\* the submission was acknowledged with the confirmation
Accepted == lastOp = "submit" /\ alertMsg = ALERT_OK

FieldsEmpty == client = <<>> /\ prestation = <<>> /\ datePrest = "" /\ montant = <<>>

-----------------------------------------------------------------------------
(* Properties *)

\* C1: for every positive amount A, the advance round-half-up(A x 0.5, 2dp)
\* plus the remainder round-half-up(A - advance, 2dp) that compute returns
\* is round-half-up(A, 2dp).
C1_AdvancePlusRemainder ==
    (lastOp = "compute" /\ ret # <<>>) =>
        /\ ret[1].montant = Amount.v
        /\ ret[1].aici + ret[1].reste = RoundHalfUp2(Amount.v)

\* C2: a submission whose client or service is blank, or whose amount is 0 or
\* does not parse, shows the 'complete the form' notification and changes
\* neither the history, nor the four fields, nor the preview area.
C2_RejectedChangesNothing ==
    [][(Submitted' /\ (IsBlank(client) \/ IsBlank(prestation) \/ Amount.nan \/ Amount.v = 0))
        => (/\ alertMsg' = ALERT_FORM
            /\ ~thrown'
            /\ UNCHANGED <<tbody, client, prestation, datePrest, montant, calcZone>>)]_vars

\* a rejected submission with a white-space client, a shown preview and
\* every other field filled in
C2_Witness ==
    /\ Submitted /\ alertMsg = ALERT_FORM
    /\ client = <<" ">> /\ prestation # <<>> /\ datePrest # "" /\ Amount.v > 0
    /\ ~calcZone.hidden

\* C3: an accepted submission puts exactly one new row on top of the previous
\* history: the date as submitted, the trimmed client and service, the amount,
\* the advance round-half-up(amount x 0.5, 2dp) of the amount field at
\* submission time, and the status 'Transmis (demo)'.
C3_AcceptedPrependsRow ==
    [][Accepted' =>
        /\ Len(tbody') = Len(tbody) + 1
        /\ Tail(tbody') = tbody
        /\ datePrest # "" => tbody'[1].d = datePrest
        /\ tbody'[1].d # ""
        /\ tbody'[1].c = trim(client)
        /\ tbody'[1].p = trim(prestation)
        /\ tbody'[1].m = Amount.v
        /\ tbody'[1].mCell = format(Amount.v)
        /\ tbody'[1].aici = HalfRoundHalfUp2(Amount.v)
        /\ tbody'[1].aiciCell = format(HalfRoundHalfUp2(Amount.v))
        /\ tbody'[1].status = "Transmis (démo)"]_vars

\* C4: a submission with a non-blank client and service and an amount that
\* parses to a non-zero number of either sign prepends one row, clears the
\* form, hides the preview and shows the confirmation; the validation
\* notification is the only error a submission can end in.
C4_NonZeroAmountSucceeds ==
    [][(Submitted' /\ ~IsBlank(client) /\ ~IsBlank(prestation) /\ ~Amount.nan /\ Amount.v # 0)
        => (/\ Len(tbody') = Len(tbody) + 1
            /\ Tail(tbody') = tbody
            /\ FieldsEmpty'
            /\ calcZone'.hidden
            /\ alertMsg' = ALERT_OK
            /\ ~thrown')]_vars

\* C5: the history is the accepted rows, most recent first, followed by the
\* two seed rows (80 with advance 40, then 120 with advance 60); a step leaves
\* it unchanged or puts one row on top.
C5_HistoryGrowsOnTop ==
    /\ [](LET n == Len(tbody)
          IN  /\ n >= 2
              /\ \A i \in 1..n : (tbody[i].status = "Réglé (démo)") <=> (i >= n - 1)
              /\ \A i \in 1..n : (tbody[i].status = "Transmis (démo)") <=> (i < n - 1)
              /\ tbody[n - 1].m = 80000 /\ tbody[n - 1].aici = 40000
              /\ tbody[n - 1].mCell = "80,00 €" /\ tbody[n - 1].aiciCell = "40,00 €"
              /\ tbody[n].m = 120000 /\ tbody[n].aici = 60000
              /\ tbody[n].mCell = "120,00 €" /\ tbody[n].aiciCell = "60,00 €")
    /\ [][\/ tbody' = tbody
          \/ /\ Accepted'
             /\ Len(tbody') = Len(tbody) + 1
             /\ Tail(tbody') = tbody]_vars

\* two accepted rows of different amounts above the seed rows
C5_Witness ==
    /\ Len(tbody) = 4
    /\ tbody[1].m # tbody[2].m
    /\ lastOp = "print"

\* C6: the compute click leaves the preview hidden and returns nothing exactly
\* when the amount text does not parse or parses to a value <= 0; otherwise
\* the preview is shown and the triple (amount, advance, remainder) returned.
C6_PreviewHiddenIffNotPositive ==
    lastOp = "compute" =>
        /\ (Amount.nan \/ Amount.v <= 0) <=> (calcZone.hidden /\ ret = <<>>)
        /\ ~(Amount.nan \/ Amount.v <= 0) =>
              /\ ~calcZone.hidden
              /\ Len(ret) = 1
              /\ DOMAIN ret[1] = {"montant", "aici", "reste"}
              /\ ret[1].montant = Amount.v
              /\ calcZone.html = <<format(Amount.v), format(ret[1].aici), format(ret[1].reste)>>
        /\ montant \in {<<>>, <<"0">>, <<"-", "5">>, <<"a", "b", "c">>} => calcZone.hidden /\ ret = <<>>
        /\ montant = <<"8", "0">> => ~calcZone.hidden /\ ret # <<>>

\* a negative amount after the compute click
C6_Witness ==
    /\ lastOp = "compute"
    /\ montant = <<"-", "5">>
    /\ calcZone.hidden /\ ret = <<>>

\* C7: right after an accepted submission the four fields are empty and the
\* preview area is hidden.
C7_AcceptedResetsForm ==
    Accepted => (FieldsEmpty /\ calcZone.hidden)

\* an accepted submission, during which compute() had shown the preview
C7_Witness ==
    /\ Accepted
    /\ FieldsEmpty
    /\ calcZone.hidden /\ calcZone.html # <<>>
    /\ Len(tbody) = 3

\* C8: the row of an accepted submission carries the date field verbatim, or,
\* when that field is empty, the user's local calendar date at the instant of
\* the submission, for every instant and every offset from UTC.
C8_EmptyDateIsLocalToday ==
    [][Accepted' =>
        tbody'[1].d = (IF datePrest # "" THEN datePrest ELSE LocalDate(now', tz))]_vars

\* C9: every row has a strictly positive amount, a non-empty client and
\* service and the advance round-half-up(amount x 0.5, 2dp).
C9_RowsArePositive ==
    \A i \in 1..Len(tbody) :
        /\ tbody[i].m > 0
        /\ tbody[i].c # <<>>
        /\ tbody[i].p # <<>>
        /\ tbody[i].aici = HalfRoundHalfUp2(tbody[i].m)

\* C10: the compute click changes nothing but the preview area, and the print
\* click nothing at all, of the history, the four fields and the preview.
C10_PreviewAndPrintFrame ==
    [][/\ lastOp' = "compute" => UNCHANGED <<tbody, client, prestation, datePrest, montant>>
       /\ lastOp' = "print" => UNCHANGED <<tbody, client, prestation, datePrest, montant, calcZone>>]_vars

\* a print click with a shown preview, a filled form and an accepted row
C10_Witness ==
    /\ lastOp = "print"
    /\ ~calcZone.hidden
    /\ Len(tbody) = 3
    /\ ~FieldsEmpty

=============================================================================
